---- MODULE Spec2Model ----
(***************************************************************************)
(* Model of python-video-converter: converter/__init__.py (Converter) and  *)
(* converter/avcodecs.py (codec descriptors, option sanitizer, geometry).  *)
(*                                                                         *)
(* The code is Python 2 (print statement at avcodecs.py:209, basestring at *)
(* __init__.py:289): int / int is floor division, and a function defined  *)
(* in a class body is a method that receives the instance as its first     *)
(* argument.                                                               *)
(*                                                                         *)
(* Python values are records tagged with their type name in field t.       *)
(* A call that can raise returns [err, val]: err = "" means it returned.   *)
(***************************************************************************)
EXTENDS Integers, Sequences, FiniteSets, TLC

VARIABLES
    cls, raw, safe,             \* BaseCodec.safe_options: class, argument, result
    acodec, aopt, afrag,        \* AudioCodec.parse_options: class, argument, result
    geom_in, geom_out,          \* VideoCodec._aspect_corrections: arguments, result
    vcodec, vopt, vfrag,        \* VideoCodec.parse_options: class, argument, result
    opt, built,                 \* Converter.parse_options: request, result per twopass
    options, twopass,           \* Converter.convert: the request and the twopass argument
    infile_found, info,         \* whether infile exists or is a URL; what probe returns
    pc, runs, yielded, raised,  \* Converter.convert: position, engine runs, yields, error
    heap, asked, probe, results \* one Converter used again: the objects that outlive a
                                \* call, the request as the caller built it, what probe
                                \* returns, and what each call returned

vars == <<cls, raw, safe, acodec, aopt, afrag, geom_in, geom_out, vcodec, vopt, vfrag,
          opt, built, options, twopass, infile_found, info, pc, runs, yielded, raised,
          heap, asked, probe, results>>

safeVars == <<cls, raw, safe>>
audioVars == <<acodec, aopt, afrag>>
geomVars == <<geom_in, geom_out>>
videoVars == <<vcodec, vopt, vfrag>>
parseVars == <<opt, built>>
convertVars == <<options, twopass, infile_found, info, pc, runs, yielded, raised>>
reuseVars == <<heap, asked, probe, results>>

\* Each specification below exercises one operation; the variables of the
\* operations it does not exercise stay idle.
Idle == "idle"
IdleSafe == cls = Idle /\ raw = Idle /\ safe = Idle
IdleAudio == acodec = Idle /\ aopt = Idle /\ afrag = Idle
IdleGeom == geom_in = Idle /\ geom_out = Idle
IdleVideo == vcodec = Idle /\ vopt = Idle /\ vfrag = Idle
IdleParse == opt = Idle /\ built = Idle
IdleConvert ==
    /\ options = Idle /\ twopass = Idle /\ infile_found = Idle /\ info = Idle
    /\ pc = Idle /\ runs = Idle /\ yielded = Idle /\ raised = Idle

IdleReuse == heap = Idle /\ asked = Idle /\ probe = Idle /\ results = Idle

\* Value of a result variable before the operation has been applied.
NotCalled == [err |-> "not called"]

(***************************************************************************)
(* Python values                                                           *)
(***************************************************************************)
VNone == [t |-> "NoneType"]
VInt(n) == [t |-> "int", i |-> n]
VStr(s) == [t |-> "str", s |-> s]
VBool(b) == [t |-> "bool", b |-> b]
VList == [t |-> "list"]                 \* the empty list []
VDict(d) == [t |-> "dict", d |-> d]

Ok(v) == [err |-> "", val |-> v]
Raise(e) == [err |-> e]

Keys(d) == DOMAIN d

\* The element of a one-element set: {F(x) : x \in {e}} evaluates e once
The(S) == CHOOSE x \in S : TRUE
EmptyDict == [k \in {} |-> VNone]
Range(s) == {s[n] : n \in 1..Len(s)}

(***************************************************************************)
(* Text: str(int) and int(str), digit by digit                             *)
(***************************************************************************)
Digits == <<"0", "1", "2", "3", "4", "5", "6", "7", "8", "9">>
Char(s, n) == SubSeq(s, n, n)
IsDigit(c) == \E d \in 1..10 : Digits[d] = c
DigitVal(c) == (CHOOSE d \in 1..10 : Digits[d] = c) - 1
IsSpace(c) == c = " "

RECURSIVE NatToStr(_)
NatToStr(n) == IF n < 10 THEN Digits[n + 1]
               ELSE NatToStr(n \div 10) \o Digits[(n % 10) + 1]

\* str(n) of an int
IntToStr(n) == IF n < 0 THEN "-" \o NatToStr(0 - n) ELSE NatToStr(n)

RECURSIVE LStrip(_)
LStrip(s) == IF Len(s) > 0 /\ IsSpace(Char(s, 1)) THEN LStrip(SubSeq(s, 2, Len(s))) ELSE s

RECURSIVE RStrip(_)
RStrip(s) == IF Len(s) > 0 /\ IsSpace(Char(s, Len(s)))
             THEN RStrip(SubSeq(s, 1, Len(s) - 1)) ELSE s

RECURSIVE DigitsToNat(_, _)
DigitsToNat(s, acc) == IF Len(s) = 0 THEN acc
                       ELSE DigitsToNat(SubSeq(s, 2, Len(s)), acc * 10 + DigitVal(Char(s, 1)))

AllDigits(s) == Len(s) > 0 /\ \A n \in 1..Len(s) : IsDigit(Char(s, n))

\* int(s) of a str: surrounding blanks, an optional sign, then decimal digits
StrToInt(s) ==
    LET body == RStrip(LStrip(s))
        signed == Len(body) > 0 /\ Char(body, 1) \in {"+", "-"}
        digits == IF signed THEN SubSeq(body, 2, Len(body)) ELSE body
    IN IF ~AllDigits(digits) THEN Raise("ValueError")
       ELSE IF signed /\ Char(body, 1) = "-" THEN Ok(0 - DigitsToNat(digits, 0))
       ELSE Ok(DigitsToNat(digits, 0))

(***************************************************************************)
(* The constructors int(v), str(v), bool(v) used as schema types           *)
(***************************************************************************)
PyInt(v) ==
    CASE v.t = "int" -> Ok(VInt(v.i))
      [] v.t = "bool" -> Ok(VInt(IF v.b THEN 1 ELSE 0))
      [] v.t = "str" -> LET r == StrToInt(v.s)
                        IN IF r.err = "" THEN Ok(VInt(r.val)) ELSE r
      [] OTHER -> Raise("TypeError")

PyStr(v) ==
    CASE v.t = "str" -> Ok(VStr(v.s))
      [] v.t = "int" -> Ok(VStr(IntToStr(v.i)))
      [] v.t = "bool" -> Ok(VStr(IF v.b THEN "True" ELSE "False"))
      [] v.t = "NoneType" -> Ok(VStr("None"))
      [] v.t = "list" -> Ok(VStr("[]"))
      [] OTHER -> Ok(VStr("{...}"))

Truthy(v) ==
    CASE v.t = "bool" -> v.b
      [] v.t = "int" -> v.i # 0
      [] v.t = "str" -> Len(v.s) > 0
      [] v.t = "dict" -> Keys(v.d) # {}
      [] OTHER -> FALSE

PyBool(v) == Ok(VBool(Truthy(v)))

\* typ(v) for typ one of the schema types
Coerce(typ, v) ==
    CASE typ = "int" -> PyInt(v)
      [] typ = "str" -> PyStr(v)
      [] typ = "bool" -> PyBool(v)

(***************************************************************************)
(* Codec classes (avcodecs.py): class attributes and registries            *)
(***************************************************************************)
Update(d, e) ==
    The({[k \in Keys(x) \cup Keys(y) |-> IF k \in Keys(y) THEN y[k] ELSE x[k]] :
         x \in {d}, y \in {e}})

BaseEncoderOptions == [k \in {} |-> "str"]
AudioEncoderOptions ==
    [codec |-> "str", channels |-> "int", bitrate |-> "int", samplerate |-> "int"]
SubtitleEncoderOptions ==
    [codec |-> "str", language |-> "str", forced |-> "int", default |-> "int"]
VideoEncoderOptions ==
    [codec |-> "str", bitrate |-> "int", fps |-> "int", max_width |-> "int",
     max_height |-> "int", sizing_policy |-> "str", src_width |-> "int",
     src_height |-> "int", src_rotate |-> "int", filters |-> "str",
     autorotate |-> "bool"]
VorbisEncoderOptions == Update(AudioEncoderOptions, [quality |-> "int"])
TheoraEncoderOptions == Update(VideoEncoderOptions, [quality |-> "int"])
H264EncoderOptions ==
    Update(VideoEncoderOptions,
           [preset |-> "str", quality |-> "int", profile |-> "str", tune |-> "str",
            level |-> "str", max_reference_frames |-> "int", max_rate |-> "str",
            max_frames_between_keyframes |-> "int"])

AudioCodecSubclasses ==
    {"VorbisCodec", "AacCodec", "FdkAacCodec", "Ac3Codec", "FlacCodec", "DtsCodec",
     "Mp3Codec", "Mp2Codec"}
VideoCodecSubclasses ==
    {"TheoraCodec", "H264Codec", "DivxCodec", "Vp8Codec", "H263Codec", "FlvCodec",
     "Mpeg1Codec", "Mpeg2Codec"}
SubtitleCodecSubclasses == {"MOVTextCodec", "SSA", "SubRip", "DVBSub", "DVDSub"}

\* cls.encoder_options, inherited where the class does not set it
encoder_options(c) ==
    CASE c = "VorbisCodec" -> VorbisEncoderOptions
      [] c = "TheoraCodec" -> TheoraEncoderOptions
      [] c = "H264Codec" -> H264EncoderOptions
      [] c \in AudioCodecSubclasses \cup {"AudioCodec"} -> AudioEncoderOptions
      [] c \in VideoCodecSubclasses \cup {"VideoCodec", "MpegCodec"} -> VideoEncoderOptions
      [] c \in SubtitleCodecSubclasses \cup {"SubtitleCodec"} -> SubtitleEncoderOptions
      [] OTHER -> BaseEncoderOptions

\* cls.codec_name
codec_name(c) ==
    CASE c = "AudioCopyCodec" -> VStr("copy")
      [] c = "VideoCopyCodec" -> VStr("copy")
      [] c = "SubtitleCopyCodec" -> VStr("copy")
      [] c = "VorbisCodec" -> VStr("vorbis")
      [] c = "AacCodec" -> VStr("aac")
      [] c = "FdkAacCodec" -> VStr("libfdk_aac")
      [] c = "Ac3Codec" -> VStr("ac3")
      [] c = "FlacCodec" -> VStr("flac")
      [] c = "DtsCodec" -> VStr("dts")
      [] c = "Mp3Codec" -> VStr("mp3")
      [] c = "Mp2Codec" -> VStr("mp2")
      [] c = "TheoraCodec" -> VStr("theora")
      [] c = "H264Codec" -> VStr("h264")
      [] c = "DivxCodec" -> VStr("divx")
      [] c = "Vp8Codec" -> VStr("vp8")
      [] c = "H263Codec" -> VStr("h263")
      [] c = "FlvCodec" -> VStr("flv")
      [] c = "Mpeg1Codec" -> VStr("mpeg1")
      [] c = "Mpeg2Codec" -> VStr("mpeg2")
      [] c = "MOVTextCodec" -> VStr("mov_text")
      [] c = "SSA" -> VStr("ass")
      [] c = "SubRip" -> VStr("subrip")
      [] c = "DVBSub" -> VStr("dvbsub")
      [] c = "DVDSub" -> VStr("dvdsub")
      [] OTHER -> VNone

\* cls.ffmpeg_codec_name (a str where the class sets it)
ffmpeg_codec_name(c) ==
    CASE c = "VorbisCodec" -> "libvorbis"
      [] c = "Mp3Codec" -> "libmp3lame"
      [] c = "TheoraCodec" -> "libtheora"
      [] c = "H264Codec" -> "libx264"
      [] c = "DivxCodec" -> "mpeg4"
      [] c = "Vp8Codec" -> "libvpx"
      [] c = "Mpeg1Codec" -> "mpeg1video"
      [] c = "Mpeg2Codec" -> "mpeg2video"
      [] OTHER -> codec_name(c).s

audio_codec_list ==
    <<"AudioNullCodec", "AudioCopyCodec", "VorbisCodec", "AacCodec", "Mp3Codec",
      "Mp2Codec", "FdkAacCodec", "Ac3Codec", "DtsCodec", "FlacCodec">>
video_codec_list ==
    <<"VideoNullCodec", "VideoCopyCodec", "TheoraCodec", "H264Codec", "DivxCodec",
      "Vp8Codec", "H263Codec", "FlvCodec", "Mpeg1Codec", "Mpeg2Codec">>
subtitle_codec_list ==
    <<"SubtitleNullCodec", "SubtitleCopyCodec", "MOVTextCodec", "SSA", "SubRip",
      "DVDSub", "DVBSub">>

(***************************************************************************)
(* BaseCodec.safe_options                                                  *)
(***************************************************************************)
\* A plausible slip: the value is copied without the typ(v) cast.
safe_options_nocast(c, opts) ==
    [k \in Keys(opts) \cap Keys(encoder_options(c)) |-> opts[k]]

safe_options(c, opts) ==
    LET schema == encoder_options(c)
        kept == {k \in Keys(opts) \cap Keys(schema) : Coerce(schema[k], opts[k]).err = ""}
    IN [k \in kept |-> Coerce(schema[k], opts[k]).val]

(***************************************************************************)
(* BaseCodec.parse_options, AudioCodec.parse_options,                      *)
(* SubtitleCodec.parse_options and the null and copy codecs                *)
(***************************************************************************)
AudioChannelsMin == 1
AudioChannelsMax == 12
AudioBitrateMin == 8
AudioBitrateMax == 512
AudioSamplerateMin == 1000
AudioSamplerateMax == 50000
SubtitleFlagMin == 0
SubtitleFlagMax == 1
SubtitleLanguageMaxLen == 3

Without(d, k) == [x \in Keys(d) \ {k} |-> d[x]]

\* An int placed in an argument list as it is, not as its str(): the token
\* records the type so that it differs from the text of the same digits.
IntToken(n) == "int(" \o IntToStr(n) \o ")"

\* BaseCodec.parse_options: the codec name check every subclass starts with
base_parse_options(c, o) ==
    IF "codec" \notin Keys(o) \/ o["codec"] # codec_name(c)
    THEN Raise("ValueError") ELSE Ok(VNone)

\* A plausible slip: an out-of-range value is clipped to the nearer bound.
ClampOutOfRange(d, k, lo, hi) ==
    The({IF k \in Keys(x) /\ x[k].i < lo THEN [x EXCEPT ![k] = VInt(lo)]
         ELSE IF k \in Keys(x) /\ x[k].i > hi THEN [x EXCEPT ![k] = VInt(hi)]
         ELSE x : x \in {d}})

\* if k in safe: if safe[k] < lo or safe[k] > hi: del safe[k]
DropOutOfRange(d, k, lo, hi) ==
    The({IF k \in Keys(x) /\ (x[k].i < lo \/ x[k].i > hi) THEN Without(x, k) ELSE x :
         x \in {d}})

\* AacCodec.aac_experimental_enable as the class body sets it (line 482)
aac_experimental_enable == <<"-strict", "experimental">>

audio_specific_produce_ffmpeg_list(c, d) ==
    CASE c = "VorbisCodec" ->
             IF "quality" \in Keys(d) THEN <<"-qscale:a", IntToken(d["quality"].i)>>
             ELSE <<>>
      [] c = "AacCodec" -> aac_experimental_enable
      [] OTHER -> <<>>

\* lines 63-78
audio_safe(c, o) ==
    DropOutOfRange(
        DropOutOfRange(
            DropOutOfRange(safe_options(c, o), "channels", AudioChannelsMin,
                           AudioChannelsMax),
            "bitrate", AudioBitrateMin, AudioBitrateMax),
        "samplerate", AudioSamplerateMin, AudioSamplerateMax)

\* lines 82-88: the list before the codec's own tokens are appended
AudioCodec_optlist(c, s) ==
    <<"-acodec", ffmpeg_codec_name(c)>>
    \o (IF "channels" \in Keys(s) THEN <<"-ac", IntToStr(s["channels"].i)>> ELSE <<>>)
    \o (IF "bitrate" \in Keys(s) THEN <<"-ab", IntToStr(s["bitrate"].i) \o "k">> ELSE <<>>)
    \o (IF "samplerate" \in Keys(s) THEN <<"-ar", IntToStr(s["samplerate"].i)>> ELSE <<>>)

AudioCodec_parse_options(c, o) ==
    LET chk == base_parse_options(c, o)
    IN IF chk.err # "" THEN chk
       ELSE The({Ok(AudioCodec_optlist(c, s) \o audio_specific_produce_ffmpeg_list(c, s)) :
                 s \in {audio_safe(c, o)}})

\* BaseCodec._codec_specific_produce_ffmpeg_list, which no subtitle class overrides
subtitle_specific_produce_ffmpeg_list(c, d) == <<>>

\* if 'language' in safe: if len(l) > 3: del safe['language']
DropLongLanguage(d) ==
    IF "language" \in Keys(d) /\ Len(d["language"].s) > SubtitleLanguageMaxLen
    THEN Without(d, "language") ELSE d

SubtitleCodec_parse_options(c, o) ==
    LET chk == base_parse_options(c, o)
        s0 == safe_options(c, o)
        s1 == DropOutOfRange(s0, "forced", SubtitleFlagMin, SubtitleFlagMax)
        s2 == DropOutOfRange(s1, "default", SubtitleFlagMin, SubtitleFlagMax)
        s3 == DropLongLanguage(s2)
    IN IF chk.err # "" THEN chk
       ELSE Ok(<<"-scodec", ffmpeg_codec_name(c)>>
               \o subtitle_specific_produce_ffmpeg_list(c, s3))

\* parse_options of the audio classes of audio_codec_list
audio_parse_options(c, o) ==
    CASE c = "AudioNullCodec" -> Ok(<<"-an">>)
      [] c = "AudioCopyCodec" -> Ok(<<"-acodec", "copy">>)
      [] OTHER -> AudioCodec_parse_options(c, o)

\* parse_options of the subtitle classes of subtitle_codec_list
subtitle_parse_options(c, o) ==
    CASE c = "SubtitleNullCodec" -> Ok(<<"-sn">>)
      [] c = "SubtitleCopyCodec" -> Ok(<<"-scodec", "copy">>)
      [] OTHER -> SubtitleCodec_parse_options(c, o)

(***************************************************************************)
(* VideoCodec: _div_by_2, _aspect_corrections, parse_options               *)
(***************************************************************************)
VideoFpsMin == 1
VideoFpsMax == 120
VideoBitrateMin == 16
VideoBitrateMax == 15000
VideoWidthMin == 16
VideoWidthMax == 4000
VideoHeightMin == 16
VideoHeightMax == 3000

SizingPolicies == {"Fit", "Fill", "Stretch", "Keep", "ShrinkToFit", "ShrinkToFill"}

\* a / b of two ints (Python 2): the floor of the quotient
PyFloorDiv(a, b) ==
    IF b > 0 THEN a \div b ELSE (0 - a) \div (0 - b)

\* The triples <<a, num, den>> with operands up to 32 for which the double
\* product a * (float(num) / float(den)) falls just below the integer
\* a * num / den, so that int() of it is one less than the exact quotient.
FloatShort ==
    {<<11, 30, 11>>, <<11, 30, 22>>, <<13, 30, 13>>, <<13, 30, 26>>, <<21, 17, 7>>,
     <<22, 30, 11>>, <<22, 30, 22>>, <<23, 26, 23>>, <<25, 23, 5>>, <<25, 29, 25>>,
     <<26, 30, 13>>, <<26, 30, 26>>, <<27, 26, 3>>, <<27, 26, 6>>, <<29, 31, 29>>}

\* factor = float(float(num)/float(den)); int(a*factor), for positive operands
ScaleBy(a, num, den) ==
    IF <<a, num, den>> \in FloatShort THEN ((a * num) \div den) - 1
    ELSE (a * num) \div den

Geometry(w, h, f) == Ok([w |-> w, h |-> h, filters |-> f])

CropFilter(mw, mh, d) ==
    VStr("crop=" \o IntToStr(mw) \o ":" \o IntToStr(mh) \o ":" \o IntToStr(d) \o ":0")

\* The Fit scaling of lines 217-224, written again at lines 267-274
FitBranch(sw, sh, mw, mh) ==
    IF PyFloorDiv(sh, sw) = mh THEN Geometry(VInt(mw), VInt(mh), VNone)
    ELSE IF PyFloorDiv(sh, sw) < mh THEN Geometry(VInt(ScaleBy(sw, mh, sh)), VInt(mh), VNone)
    ELSE Geometry(VInt(mw), VInt(ScaleBy(sh, mw, sw)), VNone)

\* The Fill scaling of lines 232-243, written again at lines 285-296
FillBranch(sw, sh, mw, mh) ==
    IF PyFloorDiv(sh, sw) = mh THEN Geometry(VInt(mw), VInt(mh), VNone)
    ELSE IF PyFloorDiv(sh, sw) < mh
         THEN LET h0 == ScaleBy(sh, mw, sw)
                  dh == PyFloorDiv(h0 - mh, 2)
              IN Geometry(VInt(mw), VInt(h0), CropFilter(mw, mh, dh))
         ELSE LET w0 == ScaleBy(sw, mh, sh)
                  dw == PyFloorDiv(w0 - mw, 2)
              IN Geometry(VInt(w0), VInt(mh), CropFilter(mw, mh, dw))

\* sw, sh, max_width, max_height are VInt or VNone, sizing_policy a str
aspect_corrections(sw, sh, max_width, max_height, sizing_policy) ==
    IF ~Truthy(max_width) \/ ~Truthy(max_height) \/ ~Truthy(sw) \/ ~Truthy(sh)
    THEN Geometry(sw, sh, VNone)
    ELSE IF sizing_policy \notin SizingPolicies THEN Geometry(sw, sh, VNone)
    ELSE CASE sizing_policy = "Fit" -> FitBranch(sw.i, sh.i, max_width.i, max_height.i)
           [] sizing_policy = "Fill" -> FillBranch(sw.i, sh.i, max_width.i, max_height.i)
           [] sizing_policy = "Stretch" -> Geometry(max_width, max_height, VNone)
           [] sizing_policy = "Keep" -> Geometry(sw, sh, VNone)
           [] sizing_policy = "ShrinkToFit" ->
                  IF sh.i > max_height.i \/ sw.i > max_width.i
                  THEN FitBranch(sw.i, sh.i, max_width.i, max_height.i)
                  ELSE Geometry(sw, sh, VNone)
           [] sizing_policy = "ShrinkToFill" ->
                  IF sh.i < max_height.i \/ sw.i < max_width.i
                  THEN FillBranch(sw.i, sh.i, max_width.i, max_height.i)
                  \* line 298 reads factor, which this path never assigned
                  ELSE Raise("UnboundLocalError")

\* The body of _div_by_2
div_by_2(d) == IF d % 2 # 0 THEN d + 1 ELSE d

\* def _div_by_2(d): the number of parameters the function declares
div_by_2_parameters == 1

\* self._div_by_2(x): a method call passes the instance and x; None % 2 raises
call_div_by_2(x) ==
    IF Len(<<"self", x>>) # div_by_2_parameters THEN Raise("TypeError")
    ELSE IF x.t # "int" THEN Raise("TypeError")
    ELSE Ok(VInt(div_by_2(x.i)))

\* max_width / max_height of lines 317-331: None when absent or out of range,
\* the next even number when odd
RequestedSize(d, k, lo, hi) ==
    IF k \notin Keys(d) THEN VNone
    ELSE IF d[k].i < lo \/ d[k].i > hi THEN VNone
    ELSE IF d[k].i % 2 # 0 THEN VInt(d[k].i + 1)
    ELSE d[k]

Get(d, k) == IF k \in Keys(d) THEN d[k] ELSE VNone

\* lines 336-339
SizingPolicyOf(d) ==
    IF "sizing_policy" \in Keys(d) /\ d["sizing_policy"].s \in SizingPolicies
    THEN d["sizing_policy"].s ELSE "Keep"

\* _autorotate: filters[src_rotate]
autorotate(src_rotate) ==
    CASE src_rotate = 90 -> Ok("transpose=1")
      [] src_rotate = 180 -> Ok("transpose=2,transpose=2")
      [] src_rotate = 270 -> Ok("transpose=2")
      [] OTHER -> Raise("KeyError")

\* optlist.index('-vf')
IndexOf(list, tok) == CHOOSE n \in 1..Len(list) : list[n] = tok /\ \A m \in 1..(n - 1) : list[m] # tok

\* _extend_vf: the value joins the '-vf' value already in the list, or starts one
extend_vf(optlist, value) ==
    IF \E n \in 1..Len(optlist) : optlist[n] = "-vf"
    THEN [optlist EXCEPT ![IndexOf(optlist, "-vf") + 1] = @ \o "," \o value]
    ELSE optlist \o <<"-vf", value>>

\* '{}'.format(v) of an int or None
Format(v) == IF v.t = "int" THEN IntToStr(v.i) ELSE PyStr(v).val.s

\* lines 349-355: the sizes after the swap for a quarter-turn rotation
Swapped(d) ==
    Truthy(Get(d, "autorotate")) /\ "src_rotate" \in Keys(d) /\ d["src_rotate"].i \in {90, 270}

\* _codec_specific_parse_options: MpegCodec (lines 642-655) puts 'aspect=W:H' in
\* front of the aspect filters; the other classes inherit BaseCodec's identity
video_specific_parse_options(c, d) ==
    IF c \in {"MpegCodec", "Mpeg1Codec", "Mpeg2Codec"}
       /\ Truthy(d["max_width"]) /\ Truthy(d["max_height"])
    THEN LET tmp == "aspect=" \o IntToStr(d["max_width"].i) \o ":"
                    \o IntToStr(d["max_height"].i)
         IN [d EXCEPT !["aspect_filters"] =
                IF @ = VNone THEN VStr(tmp) ELSE VStr(tmp \o "," \o @.s)]
    ELSE d

StrOption(d, k, flag) == IF k \in Keys(d) THEN <<flag, d[k].s>> ELSE <<>>
IntOption(d, k, flag) == IF k \in Keys(d) THEN <<flag, IntToStr(d[k].i)>> ELSE <<>>

\* _codec_specific_produce_ffmpeg_list of TheoraCodec (550-554) and H264Codec (579-598)
video_specific_produce_ffmpeg_list(c, d) ==
    CASE c = "TheoraCodec" ->
             IF "quality" \in Keys(d) THEN <<"-qscale:v", IntToken(d["quality"].i)>>
             ELSE <<>>
      [] c = "H264Codec" ->
             StrOption(d, "preset", "-preset")
             \o (IF "quality" \in Keys(d) THEN <<"-crf", IntToken(d["quality"].i)>>
                 ELSE <<>>)
             \o StrOption(d, "profile", "-profile")
             \o StrOption(d, "tune", "-tune")
             \o StrOption(d, "level", "-level")
             \o IntOption(d, "max_reference_frames", "-refs")
             \o StrOption(d, "max_rate", "-maxrate")
             \o IntOption(d, "max_frames_between_keyframes", "-g")
      [] OTHER -> <<>>

\* lines 345-391: what parse_options does with the sizes w0, h0 that the calls of
\* lines 342-343 returned
VideoCodec_produce(c, s, w0, h0, filters0) ==
    LET w == IF Swapped(s) THEN h0 ELSE w0
        h == IF Swapped(s) THEN w0 ELSE h0
        sized == Truthy(w) /\ Truthy(h)
        s1 == Update(s, [max_width |-> w, max_height |-> h, aspect_filters |-> filters0])
        s2 == IF sized
              THEN Update(s1, [aspect |-> VStr(Format(w) \o ":" \o Format(h))]) ELSE s1
        s3 == video_specific_parse_options(c, s2)
        filters == s3["aspect_filters"]
        l1 == <<"-vcodec", ffmpeg_codec_name(c)>>
              \o IntOption(s3, "fps", "-r")
              \o (IF "bitrate" \in Keys(s3)
                  THEN <<"-vb", IntToStr(s3["bitrate"].i) \o "k">> ELSE <<>>)
              \o (IF sized THEN <<"-s", Format(w) \o "x" \o Format(h)>> ELSE <<>>)
              \o (IF sized /\ "aspect" \in Keys(s3)
                  THEN <<"-aspect", Format(w) \o ":" \o Format(h)>> ELSE <<>>)
              \o (IF Truthy(filters) THEN <<"-vf", filters.s>> ELSE <<>>)
        rotating == Truthy(Get(s3, "autorotate")) /\ "src_rotate" \in Keys(s3)
        rotate_filter == autorotate(s3["src_rotate"].i)
        l2 == IF rotating THEN extend_vf(l1, rotate_filter.val) ELSE l1
        l3 == IF "filters" \in Keys(s3) THEN extend_vf(l2, s3["filters"].s) ELSE l2
    IN IF rotating /\ rotate_filter.err # "" THEN rotate_filter
       ELSE Ok(l3 \o video_specific_produce_ffmpeg_list(c, s3))

\* lines 342-343, then the rest of parse_options with the sizes they returned
VideoCodec_even(c, s, g) ==
    The({IF w2.err # "" THEN w2
         ELSE The({IF h2.err # "" THEN h2
                   ELSE VideoCodec_produce(c, s, w2.val, h2.val, g.filters) :
                   h2 \in {call_div_by_2(g.h)}}) :
         w2 \in {call_div_by_2(g.w)}})

\* lines 317-341: the requested and the source sizes, resolved by _aspect_corrections
VideoCodec_resolve(c, s) ==
    The({IF ac.err # "" THEN ac ELSE VideoCodec_even(c, s, ac.val) :
         ac \in {aspect_corrections(
                     Get(s, "src_width"), Get(s, "src_height"),
                     RequestedSize(s, "max_width", VideoWidthMin, VideoWidthMax),
                     RequestedSize(s, "max_height", VideoHeightMin, VideoHeightMax),
                     SizingPolicyOf(s))}})

\* lines 305-315
video_safe(c, o) ==
    DropOutOfRange(DropOutOfRange(safe_options(c, o), "fps", VideoFpsMin, VideoFpsMax),
                   "bitrate", VideoBitrateMin, VideoBitrateMax)

\* VideoCodec.parse_options. The call of line 342 raises in every execution that
\* reaches it (call_div_by_2), so no execution runs lines 343-391.
VideoCodec_parse_options(c, o) ==
    LET chk == base_parse_options(c, o)
    IN IF chk.err # "" THEN chk
       ELSE The({VideoCodec_resolve(c, s) : s \in {video_safe(c, o)}})

\* parse_options of the video classes of video_codec_list
video_parse_options(c, o) ==
    CASE c = "VideoNullCodec" -> Ok(<<"-vn">>)
      [] c = "VideoCopyCodec" -> Ok(<<"-vcodec", "copy">>)
      [] OTHER -> VideoCodec_parse_options(c, o)

(***************************************************************************)
(* Formats and parse_time (converter/formats.py and converter/ffmpeg.py):  *)
(* a format descriptor produces '-f <engine name>'; parse_time gives the   *)
(* textual form of a time                                                  *)
(***************************************************************************)
format_list == <<"mp4", "ogg">>

format_parse_options(f, o) ==
    IF "format" \notin Keys(o) \/ o["format"] # VStr(f) THEN Raise("ValueError")
    ELSE Ok(<<"-f", f>>)

parse_time(v) == IF v.t = "int" THEN IntToStr(v.i) ELSE v.s

(***************************************************************************)
(* Converter.__init__ registries and Converter.parse_options               *)
(***************************************************************************)
Hashable(v) == v.t \notin {"list", "dict"}

\* self.audio_codecs etc.: name -> class, filled in list order
Registered(list, v) == \E n \in 1..Len(list) : codec_name(list[n]) = v
ClassOf(list, v) ==
    list[CHOOSE n \in 1..Len(list) :
            /\ codec_name(list[n]) = v
            /\ \A m \in (n + 1)..Len(list) : codec_name(list[m]) # v]

ConverterError(msg) == Raise("ConverterError: " \o msg)

NullSection == [codec |-> VNone]

\* lines 70-84: twopass 1 replaces the request's audio section by the null codec
audio_options(o, tp) ==
    LET given == "audio" \in Keys(o) /\ tp # 1
        opt_audio == IF given THEN o["audio"] ELSE VDict(NullSection)
    IN IF opt_audio.t # "dict" \/ "codec" \notin Keys(opt_audio.d)
       THEN ConverterError("Invalid audio codec specification")
       ELSE LET c == opt_audio.d["codec"]
            IN IF ~Hashable(c) THEN Raise("TypeError")
               ELSE IF ~Registered(audio_codec_list, c)
               THEN ConverterError("Requested unknown audio codec")
               ELSE The({audio_parse_options(k, opt_audio.d) :
                           k \in {ClassOf(audio_codec_list, c)}})

\* lines 86-100
video_options(o) ==
    LET opt_video == IF "video" \in Keys(o) THEN o["video"] ELSE VDict(NullSection)
    IN IF opt_video.t # "dict" \/ "codec" \notin Keys(opt_video.d)
       THEN ConverterError("Invalid video codec specification")
       ELSE LET c == opt_video.d["codec"]
            IN IF ~Hashable(c) THEN Raise("TypeError")
               ELSE IF ~Registered(video_codec_list, c)
               THEN ConverterError("Requested unknown video codec")
               ELSE The({video_parse_options(k, opt_video.d) :
                           k \in {ClassOf(video_codec_list, c)}})

\* lines 102-115
subtitle_options(o) ==
    LET opt_subtitle == IF "subtitle" \in Keys(o) THEN o["subtitle"] ELSE VDict(NullSection)
    IN IF opt_subtitle.t # "dict" \/ "codec" \notin Keys(opt_subtitle.d)
       THEN ConverterError("Invalid subtitle codec specification")
       ELSE LET c == opt_subtitle.d["codec"]
            IN IF ~Hashable(c) THEN Raise("TypeError")
               ELSE IF ~Registered(subtitle_codec_list, c)
               THEN ConverterError("Requested unknown subtitle codec")
               ELSE The({subtitle_parse_options(k, opt_subtitle.d) :
                           k \in {ClassOf(subtitle_codec_list, c)}})

\* lines 59-65
format_options(o) ==
    LET f == o["format"]
    IN IF ~Hashable(f) THEN Raise("TypeError")
       ELSE IF f.t # "str" \/ f.s \notin Range(format_list)
       THEN ConverterError("Requested unknown format")
       ELSE format_parse_options(f.s, o)

\* lines 117-122: what 'map' adds to format_options
map_options(o) ==
    IF "map" \notin Keys(o) THEN Ok(<<>>)
    ELSE IF o["map"].t # "int" THEN ConverterError("map needs to be int")
    ELSE Ok(<<"-map", IntToStr(o["map"].i)>>)

\* A plausible slip: the duration is appended before the start.
seek_options_swapped(o) ==
    (IF "duration" \in Keys(o) THEN <<"-t", parse_time(o["duration"])>> ELSE <<>>)
    \o (IF "start" \in Keys(o) THEN <<"-ss", parse_time(o["start"])>> ELSE <<>>)

\* lines 124-130
seek_options(o) ==
    (IF "start" \in Keys(o) THEN <<"-ss", parse_time(o["start"])>> ELSE <<>>)
    \o (IF "duration" \in Keys(o) THEN <<"-t", parse_time(o["duration"])>> ELSE <<>>)

\* A plausible slip: the second branch repeats the first one's number.
pass_options_same(tp) ==
    IF tp = 1 THEN <<"-pass", "1">> ELSE IF tp = 2 THEN <<"-pass", "1">> ELSE <<>>

\* lines 135-138
pass_options(tp) ==
    IF tp = 1 THEN <<"-pass", "1">> ELSE IF tp = 2 THEN <<"-pass", "2">> ELSE <<>>

\* Converter.parse_options(opt, twopass); twopass 0 stands for None / False
parse_options(o, tp) ==
    IF o.t # "dict" THEN ConverterError("Invalid output specification")
    ELSE IF "format" \notin Keys(o.d) THEN ConverterError("Format not specified")
    ELSE
    LET fo == format_options(o.d)
        ao == audio_options(o.d, tp)
        vo == video_options(o.d)
        so == subtitle_options(o.d)
        mo == map_options(o.d)
    IN IF fo.err # "" THEN fo
       ELSE IF "audio" \notin Keys(o.d) /\ "video" \notin Keys(o.d)
       THEN ConverterError("Neither audio nor video streams requested")
       ELSE IF ao.err # "" THEN ao
       ELSE IF vo.err # "" THEN vo
       ELSE IF so.err # "" THEN so
       ELSE IF mo.err # "" THEN mo
       ELSE Ok(ao.val \o vo.val \o so.val
               \o (fo.val \o mo.val \o seek_options(o.d))
               \o pass_options(tp))

(***************************************************************************)
(* Converter.convert: a generator. Times are counted in ticks of 1/256 s,  *)
(* which floats hold exactly, so that the float quotients of lines 213,    *)
(* 218 and 223 truncate to the integer quotients below.                    *)
(***************************************************************************)
TicksPerSecond == 2 ^ 8

\* info['format']['duration'] < 0.01
ZeroLength(duration) == duration * 100 < TicksPerSecond

\* A plausible slip: the second pass is not moved into the upper half.
Percent_unshifted(pass, timecode, duration) ==
    CASE pass = 1 -> (50 * timecode) \div duration
      [] pass = 2 -> (50 * timecode) \div duration
      [] OTHER -> (100 * timecode) \div duration

\* The value yielded for a timecode: line 213 (pass 1), 218 (pass 2), 223 (one pass)
Percent(pass, timecode, duration) ==
    CASE pass = 1 -> (50 * timecode) \div duration
      [] pass = 2 -> 50 + ((50 * timecode) \div duration)
      [] OTHER -> (100 * timecode) \div duration

\* lines 198-204: the request with the probed source size put into a copy of its
\* video section
InjectSource(o, i) ==
    IF i.video /\ "video" \in Keys(o)
    THEN [o EXCEPT !["video"] =
             VDict(Update(Update(o["video"].d,
                                 [src_width |-> VInt(i.width),
                                  src_height |-> VInt(i.height)]),
                          IF "rotate" \in DOMAIN i THEN [src_rotate |-> VInt(i.rotate)]
                          ELSE EmptyDict))]
    ELSE o

\* A plausible slip: the zero-length check is left out.
convert_checks_nozero(o, found, i) ==
    IF o.t # "dict" THEN ConverterError("Invalid options")
    ELSE IF ~found THEN ConverterError("Source file doesn't exist")
    ELSE IF i = VNone THEN ConverterError("Can't get information about source file")
    ELSE IF ~i.video /\ ~i.audio
    THEN ConverterError("Source file has no audio or video streams")
    ELSE IF i.video /\ "video" \in Keys(o.d) /\ o.d["video"].t # "dict"
    THEN Raise("AttributeError")
    ELSE Ok(VDict(InjectSource(o.d, i)))

\* lines 185-207: the error raised, or the request that arguments are built from
convert_checks(o, found, i) ==
    IF o.t # "dict" THEN ConverterError("Invalid options")
    ELSE IF ~found THEN ConverterError("Source file doesn't exist")
    ELSE IF i = VNone THEN ConverterError("Can't get information about source file")
    ELSE IF ~i.video /\ ~i.audio
    THEN ConverterError("Source file has no audio or video streams")
    ELSE IF i.video /\ "video" \in Keys(o.d) /\ o.d["video"].t # "dict"
    THEN Raise("AttributeError")
    ELSE IF ZeroLength(i.duration) THEN ConverterError("Zero-length media")
    ELSE Ok(VDict(InjectSource(o.d, i)))

(***************************************************************************)
(* Specification SpecSafe: safe_options applied to bounded raw mappings    *)
(***************************************************************************)
MaxRawKeys == 2

SchemaClasses ==
    {"BaseCodec", "AudioCodec", "SubtitleCodec", "VideoCodec", "VorbisCodec",
     "TheoraCodec", "H264Codec"}
RawKeys == {"codec", "bitrate", "autorotate", "language", "title"}
RawValues ==
    {VNone, VList, VBool(TRUE), VBool(FALSE), VInt(0), VInt(-12), VInt(128),
     VStr("12"), VStr(" -7 "), VStr("abc"), VStr("")}
RawMappings ==
    UNION {[ks -> RawValues] : ks \in {s \in SUBSET RawKeys : Cardinality(s) <= MaxRawKeys}}

InitSafe ==
    /\ cls \in SchemaClasses
    /\ raw \in RawMappings
    /\ safe = NotCalled
    /\ IdleAudio /\ IdleGeom /\ IdleVideo /\ IdleParse /\ IdleConvert /\ IdleReuse

SafeOptions ==
    /\ safe = NotCalled
    /\ safe' = Ok(safe_options(cls, raw))
    /\ UNCHANGED <<cls, raw, audioVars, geomVars, videoVars, parseVars, convertVars, reuseVars>>

NextSafe == SafeOptions

SpecSafe == InitSafe /\ [][NextSafe]_vars

\* C7: safe_options returns, without raising, a mapping whose keys are keys of both
\* the schema and the raw mapping and whose values have the schema's type; a raw
\* value that int() cannot convert (None, a list, non-numeric text) is absent.
Uncoercible(typ, v) ==
    typ = "int" /\ (v.t \in {"NoneType", "list"} \/ v \in {VStr("abc"), VStr("")})

C7_SafeOptionsTyped ==
    safe # NotCalled =>
        /\ safe.err = ""
        /\ Keys(safe.val) \subseteq Keys(encoder_options(cls)) \cap Keys(raw)
        /\ \A k \in Keys(safe.val) : safe.val[k].t = encoder_options(cls)[k]
        /\ \A k \in Keys(raw) \cap Keys(encoder_options(cls)) :
               Uncoercible(encoder_options(cls)[k], raw[k]) => k \notin Keys(safe.val)

\* Witness: a call that both cast a value to another type and dropped a key.
C7_Witness ==
    /\ safe # NotCalled
    /\ \E k \in Keys(safe.val) : safe.val[k].t # raw[k].t
    /\ \E k \in Keys(raw) \cap Keys(encoder_options(cls)) : k \notin Keys(safe.val)

(***************************************************************************)
(* Specification SpecAudio: AudioCodec.parse_options around its bounds     *)
(***************************************************************************)
Margin == 1

Around(lo, hi) ==
    {VInt(n) : n \in ((lo - Margin)..(lo + Margin)) \cup ((hi - Margin)..(hi + Margin))}
Absent == [t |-> "absent"]

AudioRequests ==
    {[c |-> c, channels |-> ch, bitrate |-> br, samplerate |-> sr] :
        c \in AudioCodecSubclasses,
        ch \in Around(AudioChannelsMin, AudioChannelsMax) \cup {Absent},
        br \in Around(AudioBitrateMin, AudioBitrateMax) \cup {Absent},
        sr \in Around(AudioSamplerateMin, AudioSamplerateMax) \cup {Absent}}

Option(k, v) == IF v = Absent THEN EmptyDict ELSE [x \in {k} |-> v]

AudioOptionsOf(r) ==
    Update(Update(Update([codec |-> codec_name(r.c)],
                         Option("channels", r.channels)),
                  Option("bitrate", r.bitrate)),
           Option("samplerate", r.samplerate))

InitAudio ==
    /\ \E r \in AudioRequests : acodec = r.c /\ aopt = AudioOptionsOf(r)
    /\ afrag = NotCalled
    /\ IdleSafe /\ IdleGeom /\ IdleVideo /\ IdleParse /\ IdleConvert /\ IdleReuse

AudioParseOptions ==
    /\ afrag = NotCalled
    /\ afrag' = AudioCodec_parse_options(acodec, aopt)
    /\ UNCHANGED <<acodec, aopt, safeVars, geomVars, videoVars, parseVars, convertVars, reuseVars>>

NextAudio == AudioParseOptions

SpecAudio == InitAudio /\ [][NextAudio]_vars

\* The tokens that follow flag in the list
ValuesOf(list, flag) == {list[n + 1] : n \in {m \in 1..(Len(list) - 1) : list[m] = flag}}
Count(list, tok) == Cardinality({n \in 1..Len(list) : list[n] = tok})

\* flag is in the fragment exactly when option k is an int within [lo, hi], and
\* then once, followed by the digits of that very int and the suffix
KeptExactly(list, o, k, flag, lo, hi, suffix) ==
    /\ (flag \in Range(list)) <=> (k \in Keys(o) /\ lo <= o[k].i /\ o[k].i <= hi)
    /\ flag \in Range(list) =>
         /\ Count(list, flag) = 1
         /\ \A tok \in ValuesOf(list, flag) :
              /\ Len(tok) > Len(suffix)
              /\ SubSeq(tok, Len(tok) - Len(suffix) + 1, Len(tok)) = suffix
              /\ StrToInt(SubSeq(tok, 1, Len(tok) - Len(suffix))) = Ok(o[k].i)

\* C8: for every AudioCodec subclass, '-ab' is emitted exactly when 8 <= bitrate <= 512
\* and carries that bitrate followed by 'k' (dropped, never clamped); likewise '-ac'
\* for channels in [1,12] and '-ar' for samplerate in [1000,50000].
C8_AudioDropNotClamp ==
    afrag # NotCalled =>
        /\ afrag.err = ""
        /\ KeptExactly(afrag.val, aopt, "bitrate", "-ab", 8, 512, "k")
        /\ KeptExactly(afrag.val, aopt, "channels", "-ac", 1, 12, "")
        /\ KeptExactly(afrag.val, aopt, "samplerate", "-ar", 1000, 50000, "")

\* Witness: one call that keeps bitrate 8 exactly and drops channels 13.
C8_Witness ==
    /\ afrag # NotCalled
    /\ "bitrate" \in Keys(aopt) /\ aopt["bitrate"] = VInt(8)
    /\ "8k" \in ValuesOf(afrag.val, "-ab")
    /\ "channels" \in Keys(aopt) /\ aopt["channels"] = VInt(13)
    /\ "-ac" \notin Range(afrag.val)
    /\ "samplerate" \in Keys(aopt) /\ aopt["samplerate"] = VInt(50001)
    /\ "-ar" \notin Range(afrag.val)

(***************************************************************************)
(* Specification SpecGeom: _aspect_corrections on bounded sizes            *)
(***************************************************************************)
MaxDim == 26

SourceSizes == {VNone, VInt(0)} \cup {VInt(n) : n \in 1..MaxDim}
MaxSizes == {VNone} \cup {VInt(n) : n \in {m \in VideoWidthMin..MaxDim : m % 2 = 0}}

InitGeom ==
    /\ geom_in \in [sw : SourceSizes, sh : SourceSizes, max_width : MaxSizes,
                    max_height : MaxSizes, sizing_policy : SizingPolicies]
    /\ geom_out = NotCalled
    /\ IdleSafe /\ IdleAudio /\ IdleVideo /\ IdleParse /\ IdleConvert /\ IdleReuse

AspectCorrections ==
    /\ geom_out = NotCalled
    /\ geom_out' = aspect_corrections(geom_in.sw, geom_in.sh, geom_in.max_width,
                                      geom_in.max_height, geom_in.sizing_policy)
    /\ UNCHANGED <<geom_in, safeVars, audioVars, videoVars, parseVars, convertVars, reuseVars>>

NextGeom == AspectCorrections

SpecGeom == InitGeom /\ [][NextGeom]_vars

AllSizesGiven ==
    /\ Truthy(geom_in.sw) /\ Truthy(geom_in.sh)
    /\ Truthy(geom_in.max_width) /\ Truthy(geom_in.max_height)

\* |w * sh - h * sw| below sw + sh: w : h is sw : sh up to one pixel of rounding
SameRatio(w, h, sw, sh) ==
    /\ w * sh - h * sw < sw + sh
    /\ h * sw - w * sh < sw + sh

\* C9: for Fit and ShrinkToFit the resolved size never exceeds (max_width,
\* max_height) and keeps the source ratio within rounding tolerance.
C9_FitWithinBounds ==
    (/\ geom_out # NotCalled
     /\ AllSizesGiven
     /\ geom_in.sizing_policy \in {"Fit", "ShrinkToFit"}) =>
        /\ geom_out.err = ""
        /\ geom_out.val.w.i <= geom_in.max_width.i
        /\ geom_out.val.h.i <= geom_in.max_height.i
        /\ SameRatio(geom_out.val.w.i, geom_out.val.h.i, geom_in.sw.i, geom_in.sh.i)

\* C17: for ShrinkToFill with all four sizes given, when 'sh < max_height or
\* sw < max_width' is false _aspect_corrections returns the source size with no crop
\* filter and raises nothing; when it is true the result is that of Fill.
C17_ShrinkToFillPassthrough ==
    (/\ geom_out # NotCalled
     /\ AllSizesGiven
     /\ geom_in.sizing_policy = "ShrinkToFill") =>
        IF geom_in.sh.i < geom_in.max_height.i \/ geom_in.sw.i < geom_in.max_width.i
        THEN geom_out = aspect_corrections(geom_in.sw, geom_in.sh, geom_in.max_width,
                                           geom_in.max_height, "Fill")
        ELSE geom_out = Geometry(geom_in.sw, geom_in.sh, VNone)

(***************************************************************************)
(* Specification SpecVideo: VideoCodec.parse_options on bounded requests   *)
(***************************************************************************)
VideoClasses == {"H264Codec", "Mpeg2Codec", "TheoraCodec"}

VideoRequests ==
    [c : VideoClasses,
     src_width : {Absent, VInt(17), VInt(20), VInt(32)},
     src_height : {Absent, VInt(17), VInt(20), VInt(32)},
     max_width : {Absent, VInt(15), VInt(16), VInt(19), VInt(4001)},
     max_height : {Absent, VInt(15), VInt(16), VInt(19), VInt(3001)},
     sizing_policy : {Absent, VStr("Bogus")} \cup {VStr(x) : x \in SizingPolicies},
     autorotate : {Absent, VBool(TRUE)},
     src_rotate : {Absent, VInt(90), VInt(45)},
     filters : {Absent, VStr("hflip")}]

VideoOptionsOf(r) ==
    Update(Update(Update(Update(Update(Update(Update(Update(
        [codec |-> codec_name(r.c)],
        Option("src_width", r.src_width)),
        Option("src_height", r.src_height)),
        Option("max_width", r.max_width)),
        Option("max_height", r.max_height)),
        Option("sizing_policy", r.sizing_policy)),
        Option("autorotate", r.autorotate)),
        Option("src_rotate", r.src_rotate)),
        Option("filters", r.filters))

InitVideo ==
    /\ \E r \in VideoRequests : vcodec = r.c /\ vopt = VideoOptionsOf(r)
    /\ vfrag = NotCalled
    /\ IdleSafe /\ IdleAudio /\ IdleGeom /\ IdleParse /\ IdleConvert /\ IdleReuse

VideoParseOptions ==
    /\ vfrag = NotCalled
    /\ vfrag' = VideoCodec_parse_options(vcodec, vopt)
    /\ UNCHANGED <<vcodec, vopt, safeVars, audioVars, geomVars, parseVars, convertVars, reuseVars>>

NextVideo == VideoParseOptions

SpecVideo == InitVideo /\ [][NextVideo]_vars

\* C10: for sizing policy Keep the resolved size emitted by parse_options is the
\* source size exactly, odd source dimensions included.
C10_KeepSourceSize ==
    (/\ vfrag # NotCalled
     /\ Get(vopt, "sizing_policy") = VStr("Keep")
     /\ "src_width" \in Keys(vopt) /\ "src_height" \in Keys(vopt)) =>
        /\ vfrag.err = ""
        /\ ValuesOf(vfrag.val, "-s") =
             {IntToStr(vopt["src_width"].i) \o "x" \o IntToStr(vopt["src_height"].i)}

SourceGiven == "src_width" \in Keys(vopt) /\ "src_height" \in Keys(vopt)
InRange(d, k, lo, hi) == k \in Keys(d) /\ lo <= d[k].i /\ d[k].i <= hi
Rotating == Get(vopt, "autorotate") = VBool(TRUE) /\ "src_rotate" \in Keys(vopt)

\* The two numbers of a token 'W<sep>H'
SepIndex(tok, sep) == CHOOSE n \in 1..Len(tok) : Char(tok, n) = sep
Left(tok, sep) == SubSeq(tok, 1, SepIndex(tok, sep) - 1)
Right(tok, sep) == SubSeq(tok, SepIndex(tok, sep) + 1, Len(tok))
EvenPair(tok, sep) ==
    StrToInt(Left(tok, sep)).val % 2 = 0 /\ StrToInt(Right(tok, sep)).val % 2 = 0
Mirror(tok, sep) == Right(tok, sep) \o sep \o Left(tok, sep)
EndsWith(str, suffix) ==
    Len(str) >= Len(suffix) /\ SubSeq(str, Len(str) - Len(suffix) + 1, Len(str)) = suffix
StartsWith(str, prefix) ==
    Len(str) >= Len(prefix) /\ SubSeq(str, 1, Len(prefix)) = prefix

\* C11: for Stretch, a source size and in-range max_width and max_height (odd ones
\* included), parse_options emits the size (max_width, max_height) exactly.
C11_StretchExact ==
    (/\ vfrag # NotCalled
     /\ Get(vopt, "sizing_policy") = VStr("Stretch")
     /\ SourceGiven /\ ~Rotating
     /\ InRange(vopt, "max_width", 16, 4000)
     /\ InRange(vopt, "max_height", 16, 3000)) =>
        /\ vfrag.err = ""
        /\ ValuesOf(vfrag.val, "-s") =
             {IntToStr(vopt["max_width"].i) \o "x" \o IntToStr(vopt["max_height"].i)}

\* C12: for every request with a source size, parse_options emits '-s WxH' and
\* '-aspect W:H' and every W and H in them is even, also after the autorotate swap.
C12_EvenSizes ==
    (vfrag # NotCalled /\ SourceGiven) =>
        /\ vfrag.err = ""
        /\ ValuesOf(vfrag.val, "-s") # {}
        /\ \A tok \in ValuesOf(vfrag.val, "-s") : EvenPair(tok, "x")
        /\ \A tok \in ValuesOf(vfrag.val, "-aspect") : EvenPair(tok, ":")

\* C13: a request with autorotate true and src_rotate 90 emits in '-s' and '-aspect'
\* the height and width, in this order, that the same request without the rotation
\* emits as width and height.
C13_AutorotateSwaps ==
    (/\ vfrag # NotCalled
     /\ SourceGiven
     /\ Rotating /\ vopt["src_rotate"] = VInt(90)) =>
        LET plain == VideoCodec_parse_options(
                         vcodec, Without(Without(vopt, "autorotate"), "src_rotate"))
        IN /\ vfrag.err = ""
           /\ plain.err = ""
           /\ ValuesOf(vfrag.val, "-s") # {}
           /\ ValuesOf(vfrag.val, "-s") =
                {Mirror(tok, "x") : tok \in ValuesOf(plain.val, "-s")}
           /\ ValuesOf(vfrag.val, "-aspect") =
                {Mirror(tok, ":") : tok \in ValuesOf(plain.val, "-aspect")}

\* C14: for a request whose codec name is the class's own, no value of the other
\* options makes parse_options raise: it returns a fragment that starts with
\* '-vcodec'.
C14_NoOptionValueFails ==
    vfrag # NotCalled =>
        /\ vfrag.err = ""
        /\ Len(vfrag.val) >= 2 /\ vfrag.val[1] = "-vcodec"

\* The end of the filter chain that the request asks for: the transpose filter of a
\* quarter turn, then the user's filters
ChainTail ==
    IF Rotating /\ vopt["src_rotate"] = VInt(90)
    THEN (IF "filters" \in Keys(vopt) THEN "transpose=1," \o vopt["filters"].s
          ELSE "transpose=1")
    ELSE vopt["filters"].s

\* C16: a request with a rotation of 90 or with user filters gets a fragment with
\* exactly one '-vf', whose value is the chain crop filter, transpose filter, user
\* filters, in this order, each present only when it applies.
C16_SingleVfChain ==
    (/\ vfrag # NotCalled
     /\ "filters" \in Keys(vopt) \/ (Rotating /\ vopt["src_rotate"] = VInt(90))) =>
        /\ vfrag.err = ""
        /\ Count(vfrag.val, "-vf") = 1
        /\ \A v \in ValuesOf(vfrag.val, "-vf") :
             \/ v = ChainTail
             \/ /\ EndsWith(v, "," \o ChainTail)
                /\ StartsWith(v, "crop=") \/ StartsWith(v, "aspect=")

(***************************************************************************)
(* Specification SpecParse: Converter.parse_options on bounded requests,   *)
(* called with twopass None (0), 1 and 2 on the same request               *)
(***************************************************************************)
TwopassValues == {0, 1, 2}

FormatValues == {Absent, VStr("mp4"), VStr("ogg"), VStr("bogus")}
AudioSections ==
    {Absent, VStr("aac"),
     VDict([codec |-> VStr("aac")]),
     VDict([codec |-> VStr("vorbis"), quality |-> VInt(5)]),
     VDict([codec |-> VStr("mp3"), bitrate |-> VInt(128), channels |-> VInt(2)]),
     VDict([codec |-> VStr("copy")]),
     VDict([codec |-> VNone]),
     VDict([codec |-> VStr("bogus")]),
     VDict([codec |-> VList]),
     VDict([bitrate |-> VInt(128)])}
VideoSections ==
    {Absent, VStr("h264"),
     VDict([codec |-> VStr("h264")]),
     VDict([codec |-> VStr("mpeg2"), max_width |-> VInt(16), max_height |-> VInt(16),
            src_width |-> VInt(32), src_height |-> VInt(32),
            sizing_policy |-> VStr("ShrinkToFill")]),
     VDict([codec |-> VStr("copy")]),
     VDict([codec |-> VNone]),
     VDict([codec |-> VStr("bogus")]),
     VDict([bitrate |-> VInt(300)])}
SubtitleSections ==
    {Absent, VList,
     VDict([codec |-> VStr("mov_text"), language |-> VStr("eng")]),
     VDict([codec |-> VStr("copy")]),
     VDict([codec |-> VStr("bogus")])}
MapValues == {Absent, VInt(0), VStr("0")}
StartValues == {Absent, VStr("00:00:05")}
DurationValues == {Absent, VInt(10)}

RequestOf(r) ==
    VDict(Update(Update(Update(Update(Update(Update(Option("format", r.format),
        Option("audio", r.audio)),
        Option("video", r.video)),
        Option("subtitle", r.subtitle)),
        Option("map", r.map)),
        Option("start", r.start)),
        Option("duration", r.duration)))

Requests ==
    {VList} \cup
    {RequestOf(r) : r \in [format : FormatValues, audio : AudioSections,
                           video : VideoSections, subtitle : SubtitleSections,
                           map : MapValues, start : StartValues,
                           duration : DurationValues]}

InitParse ==
    /\ opt \in Requests
    /\ built = [tp \in TwopassValues |-> NotCalled]
    /\ IdleSafe /\ IdleAudio /\ IdleGeom /\ IdleVideo /\ IdleConvert /\ IdleReuse

ParseOptions ==
    /\ \E tp \in TwopassValues :
         /\ built[tp] = NotCalled
         /\ \E r \in {parse_options(opt, tp)} : built' = [built EXCEPT ![tp] = r]
    /\ UNCHANGED <<opt, safeVars, audioVars, geomVars, videoVars, convertVars, reuseVars>>

NextParse == ParseOptions

SpecParse == InitParse /\ [][NextParse]_vars

Returned(r) == r # NotCalled /\ r.err = ""
Adjacent(list, a, b) == \E n \in 1..(Len(list) - 1) : list[n] = a /\ list[n + 1] = b
ButLast2(list) == SubSeq(list, 1, Len(list) - 2)
Last2(list) == SubSeq(list, Len(list) - 1, Len(list))

\* C1 as stated: the lists built with twopass 1 and 2 for one request are the same
\* up to the final '-pass <n>' pair.
C1_PassListsDifferOnlyInPass ==
    (Returned(built[1]) /\ Returned(built[2])) =>
        /\ Last2(built[1].val) = <<"-pass", "1">>
        /\ Last2(built[2].val) = <<"-pass", "2">>
        /\ ButLast2(built[1].val) = ButLast2(built[2].val)

\* The first token of the video fragment in a list
VideoStart(list) == CHOOSE n \in 1..Len(list) : list[n] \in {"-vn", "-vcodec"}

\* C1 amended: the two lists end in '-pass 1' and '-pass 2' and are identical from
\* the video fragment up to that pair; before it the pass-1 list holds '-an' alone
\* and the pass-2 list holds the audio fragment of the request ('-an', or
\* '-acodec ...'), which is the only other place where they differ.
C1_PassListsDifferInAudioAndPass ==
    (Returned(built[1]) /\ Returned(built[2])) =>
        LET l1 == built[1].val
            l2 == built[2].val
        IN /\ Last2(l1) = <<"-pass", "1">>
           /\ Last2(l2) = <<"-pass", "2">>
           /\ l1[1] = "-an" /\ VideoStart(l1) = 2
           /\ l2[1] \in {"-an", "-acodec"}
           /\ SubSeq(l1, 2, Len(l1) - 2) = SubSeq(l2, VideoStart(l2), Len(l2) - 2)
           /\ "audio" \notin Keys(opt.d) => ButLast2(l1) = ButLast2(l2)

\* Witness: both passes built for a request whose audio section is a real codec.
C1_Witness ==
    /\ Returned(built[1]) /\ Returned(built[2])
    /\ built[2].val[1] = "-acodec"
    /\ Len(built[2].val) > Len(built[1].val)

\* C5: no argument list parse_options returns holds both '-an' and '-vn'.
C5_KeepsAStream ==
    \A tp \in TwopassValues :
        Returned(built[tp]) =>
            ~("-an" \in Range(built[tp].val) /\ "-vn" \in Range(built[tp].val))

\* C6: the request format mp4, audio aac, video h264 builds, without a pass number,
\* a list with '-f mp4', '-acodec aac', '-vcodec libx264' and no '-pass'.
C6_Mp4AacH264 ==
    (/\ opt = VDict([format |-> VStr("mp4"), audio |-> VDict([codec |-> VStr("aac")]),
                     video |-> VDict([codec |-> VStr("h264")])])
     /\ built[0] # NotCalled) =>
        /\ built[0].err = ""
        /\ Adjacent(built[0].val, "-f", "mp4")
        /\ Adjacent(built[0].val, "-acodec", "aac")
        /\ Adjacent(built[0].val, "-vcodec", "libx264")
        /\ "-pass" \notin Range(built[0].val)

AudioFlags == {"-an", "-acodec"}
VideoFlags == {"-vn", "-vcodec"}
SubtitleFlags == {"-sn", "-scodec"}
Starts(list, flags) == {n \in 1..Len(list) : list[n] \in flags}
OneStart(list, flags) == Cardinality(Starts(list, flags)) = 1
Start(list, flags) == CHOOSE n \in Starts(list, flags) : TRUE
Given(k, toks) == IF k \in Keys(opt.d) THEN toks ELSE <<>>

\* C15: every list parse_options returns is, in this order and with nothing in
\* between, the audio fragment, the video fragment, the subtitle fragment, '-f <name>'
\* with the request's '-map', '-ss' and '-t' pairs, and the '-pass <n>' pair for
\* twopass 1 or 2.
C15_FragmentOrder ==
    \A tp \in TwopassValues :
        Returned(built[tp]) =>
            LET l == built[tp].val
                v == Start(l, VideoFlags)
                s == Start(l, SubtitleFlags)
                f == Start(l, {"-f"})
            IN /\ OneStart(l, AudioFlags) /\ OneStart(l, VideoFlags)
               /\ OneStart(l, SubtitleFlags) /\ OneStart(l, {"-f"})
               /\ Start(l, AudioFlags) = 1 /\ 1 < v /\ v < s /\ s < f
               /\ Ok(SubSeq(l, 1, v - 1)) = audio_options(opt.d, tp)
               /\ Ok(SubSeq(l, v, s - 1)) = video_options(opt.d)
               /\ Ok(SubSeq(l, s, f - 1)) = subtitle_options(opt.d)
               /\ SubSeq(l, f, Len(l)) =
                    <<"-f", opt.d["format"].s>>
                    \o Given("map", <<"-map", IntToStr(opt.d["map"].i)>>)
                    \o Given("start", <<"-ss", opt.d["start"].s>>)
                    \o Given("duration", <<"-t", IntToStr(opt.d["duration"].i)>>)
                    \o (IF tp = 0 THEN <<>> ELSE <<"-pass", IntToStr(tp)>>)

\* Witness: a second-pass list with a fragment of each kind and all of '-map', '-ss',
\* '-t' and '-pass'.
C15_Witness ==
    /\ Returned(built[2])
    /\ built[2].val[1] = "-acodec"
    /\ Adjacent(built[2].val, "-vcodec", "copy")
    /\ "-scodec" \in Range(built[2].val)
    /\ {"-map", "-ss", "-t", "-pass"} \subseteq Range(built[2].val)

(***************************************************************************)
(* Specification Spec: one call of Converter.convert, iterated to its end  *)
(***************************************************************************)
MaxDuration == 4
MaxTimecode == 5
MaxYields == 3

ConvertRequests ==
    {VList,
     VDict([format |-> VStr("mp4"), audio |-> VDict([codec |-> VStr("aac")]),
            video |-> VDict([codec |-> VStr("copy")])]),
     VDict([format |-> VStr("ogg"),
            audio |-> VDict([codec |-> VStr("vorbis"), quality |-> VInt(5)])]),
     VDict([format |-> VStr("mp4"), audio |-> VDict([codec |-> VStr("bogus")]),
            video |-> VDict([codec |-> VStr("copy")])]),
     VDict([format |-> VStr("mp4"), audio |-> VStr("aac"),
            video |-> VDict([codec |-> VStr("copy")])]),
     VDict([format |-> VStr("mp4"), audio |-> VDict([codec |-> VStr("aac")]),
            video |-> VDict([codec |-> VStr("h264")])]),
     VDict([format |-> VStr("mp4"), video |-> VStr("h264")]),
     VDict([format |-> VStr("bogus"), audio |-> VDict([codec |-> VStr("aac")])]),
     VDict([format |-> VStr("mp4"), audio |-> VDict([codec |-> VStr("aac")]),
            video |-> VDict([codec |-> VStr("copy")]), map |-> VStr("0")])}

ProbeResults ==
    {VNone} \cup [video : BOOLEAN, audio : BOOLEAN, width : {32}, height : {18},
                  duration : 0..MaxDuration]

Init ==
    /\ options \in ConvertRequests
    /\ twopass \in BOOLEAN
    /\ infile_found \in BOOLEAN
    /\ info \in ProbeResults
    /\ pc = "created"
    /\ runs = <<>>
    /\ yielded = <<>>
    /\ raised = ""
    /\ IdleSafe /\ IdleAudio /\ IdleGeom /\ IdleVideo /\ IdleParse /\ IdleReuse

frame == <<options, twopass, infile_found, info, safeVars, audioVars, geomVars,
           videoVars, parseVars, reuseVars>>

\* The first next(): lines 185-207
Check ==
    /\ pc = "created"
    /\ \E r \in {convert_checks(options, infile_found, info)} :
          IF r.err # "" THEN pc' = "raised" /\ raised' = r.err
          ELSE pc' = (IF twopass THEN "build1" ELSE "build") /\ raised' = raised
    /\ UNCHANGED <<runs, yielded, frame>>

PassAt(p) == CASE p \in {"build1", "run1"} -> 1 [] p \in {"build2", "run2"} -> 2 [] OTHER -> 0
RunOf(p) == CASE p = "build1" -> "run1" [] p = "build2" -> "run2" [] OTHER -> "run"

\* lines 210-211, 215-216, 220-221: build the arguments, then start the engine
BuildAndStart ==
    /\ pc \in {"build", "build1", "build2"}
    /\ \E o \in {convert_checks(options, infile_found, info).val} :
       \E r \in {parse_options(o, PassAt(pc))} :
          IF r.err # "" THEN pc' = "raised" /\ raised' = r.err /\ runs' = runs
          ELSE pc' = RunOf(pc) /\ raised' = raised /\ runs' = Append(runs, r.val)
    /\ UNCHANGED <<yielded, frame>>

\* The engine reports a timecode and convert yields its percentage
EngineYield ==
    /\ pc \in {"run", "run1", "run2"}
    /\ Len(yielded) < MaxYields
    /\ \E t \in 0..MaxTimecode :
         yielded' = Append(yielded, [pass |-> PassAt(pc), timecode |-> t,
                                     value |-> Percent(PassAt(pc), t, info.duration)])
    /\ UNCHANGED <<pc, runs, raised, frame>>

\* The engine run ends: the second pass follows the first, otherwise convert ends
EngineEnd ==
    /\ pc \in {"run", "run1", "run2"}
    /\ pc' = (IF pc = "run1" THEN "build2" ELSE "done")
    /\ UNCHANGED <<runs, yielded, raised, frame>>

\* The engine run fails or times out: its error leaves convert
EngineError ==
    /\ pc \in {"run", "run1", "run2"}
    /\ pc' = "raised"
    /\ raised' = "FFMpegConvertError"
    /\ UNCHANGED <<runs, yielded, frame>>

Next == Check \/ BuildAndStart \/ EngineYield \/ EngineEnd \/ EngineError

Spec == Init /\ [][Next]_vars

\* The errors parse_options raises about the request itself
ValidationErrors ==
    {ConverterError(m).err : m \in
        {"Invalid output specification", "Format not specified",
         "Requested unknown format", "Neither audio nor video streams requested",
         "Invalid audio codec specification", "Requested unknown audio codec",
         "Invalid video codec specification", "Requested unknown video codec",
         "Invalid subtitle codec specification", "Requested unknown subtitle codec",
         "map needs to be int"}}

\* C2: no validation error of the request is raised after an engine run has started.
C2_ValidationBeforeEngine ==
    raised \in ValidationErrors => runs = <<>>

Values(pass) == {yielded[n].value : n \in {m \in 1..Len(yielded) : yielded[m].pass = pass}}
PassOrder ==
    \A m, n \in 1..Len(yielded) :
        (yielded[m].pass = 1 /\ yielded[n].pass = 2) => m < n

Probed == options.t = "dict" /\ infile_found /\ info # VNone
Started == pc # "created"

\* C4 as stated: a probed duration below 0.01 s makes convert fail with the
\* zero-length error, and no engine run is started.
C4_ZeroLengthError ==
    (Started /\ Probed /\ ZeroLength(info.duration)) =>
        /\ raised = "ConverterError: Zero-length media"
        /\ runs = <<>>

\* The cases in which an earlier check of convert fails first
NoStreams == ~info.video /\ ~info.audio
VideoSectionNotMapping ==
    info.video /\ "video" \in Keys(options.d) /\ options.d["video"].t # "dict"

\* C4 amended: a probed duration below 0.01 s makes convert fail without ever
\* starting an engine run; the error is the zero-length error unless the source has
\* no stream, or has a video stream while the request's video section is not a
\* mapping, in which case that earlier check fails.
C4_ZeroLengthNoEngineRun ==
    (Started /\ Probed /\ ZeroLength(info.duration)) =>
        /\ pc = "raised" /\ runs = <<>> /\ yielded = <<>>
        /\ raised = (IF NoStreams
                     THEN "ConverterError: Source file has no audio or video streams"
                     ELSE IF VideoSectionNotMapping THEN "AttributeError"
                     ELSE "ConverterError: Zero-length media")

\* Witness: the zero-length error raised for a request that would otherwise build.
C4_Witness ==
    /\ raised = "ConverterError: Zero-length media"
    /\ info.duration > 0
    /\ parse_options(options, 0).err = ""

(***************************************************************************)
(* Objects and references. The statements of convert and parse_options     *)
(* that copy a mapping or write through a reference, applied to a heap of  *)
(* named objects: the caller's request and its video section, the class    *)
(* attribute AacCodec.aac_experimental_enable, the registries of           *)
(* Converter.__init__, and the objects a call creates.                     *)
(***************************************************************************)
VRef(a) == [t |-> "ref", a |-> a]

\* The objects that outlive a call
SharedObjects ==
    {"request", "request_video", "aac_experimental_enable", "audio_codecs",
     "video_codecs", "subtitle_codecs", "formats"}

\* a new object named a
Alloc(h, a, obj) ==
    The({[x \in DOMAIN g \cup {a} |-> IF x = a THEN v ELSE g[x]] : g \in {h}, v \in {obj}})

\* a[k] = val
SetItem(h, a, k, val) == The({[g EXCEPT ![a] = Update(@, [x \in {k} |-> val])] : g \in {h}})

\* a.extend(toks)
Extend(h, a, toks) == The({[g EXCEPT ![a] = @ \o toks] : g \in {h}})

\* A plausible slip: the mapping itself is used where a copy of it was meant.
dict_copy_alias(h, src, dst) == [heap |-> h, ref |-> src]

\* dst = src.copy(): a new mapping with the entries of src
dict_copy(h, src, dst) == The({[heap |-> Alloc(g, dst, g[src]), ref |-> dst] : g \in {h}})

\* The mapping at a as a value, with the mappings it refers to in place
Deref(h, a) ==
    The({VDict([k \in Keys(g[a]) |->
                   IF g[a][k].t = "ref" THEN VDict(g[g[a][k].a]) ELSE g[a][k]]) :
         g \in {h}})

\* What is left of the heap when a call returns
Shared(h) == The({[a \in SharedObjects |-> g[a]] : g \in {h}})

\* Converter.__init__, lines 33-43: name -> class, a later class of the same name
\* replacing an earlier one
registry(list) ==
    {<<codec_name(list[n]), list[n]>> :
        n \in {m \in 1..Len(list) :
                 \A k \in (m + 1)..Len(list) : codec_name(list[k]) # codec_name(list[m])}}

\* lines 45-47
formats_registry == {<<VStr(format_list[n]), format_list[n]>> : n \in 1..Len(format_list)}

\* The heap after Converter() and with the caller's request req built
HeapOf(req) ==
    [a \in SharedObjects |->
        CASE a = "request" ->
                 [k \in Keys(req.d) |->
                     IF k = "video" /\ req.d[k].t = "dict" THEN VRef("request_video")
                     ELSE req.d[k]]
          [] a = "request_video" ->
                 IF "video" \in Keys(req.d) /\ req.d["video"].t = "dict"
                 THEN req.d["video"].d ELSE EmptyDict
          [] a = "aac_experimental_enable" -> aac_experimental_enable
          [] a = "audio_codecs" -> registry(audio_codec_list)
          [] a = "video_codecs" -> registry(video_codec_list)
          [] a = "subtitle_codecs" -> registry(subtitle_codec_list)
          [] a = "formats" -> formats_registry]

\* lines 201-204: the probed size and rotation written into the mapping at v
write_source(h, v, i) ==
    The({IF "rotate" \in DOMAIN i THEN SetItem(g, v, "src_rotate", VInt(i.rotate)) ELSE g :
         g \in {SetItem(SetItem(h, v, "src_width", VInt(i.width)),
                        v, "src_height", VInt(i.height))}})

\* lines 198-204: options = options.copy(); v = options['video'] =
\* options['video'].copy(); v['src_width'] = ...
inject_source(h, i) ==
    IF ~(i.video /\ "video" \in Keys(h["request"]))
    THEN [heap |-> h, options |-> "request", err |-> ""]
    ELSE The({IF c1.heap[c1.ref]["video"].t # "ref"
              THEN [heap |-> c1.heap, options |-> c1.ref, err |-> "AttributeError"]
              ELSE The({[heap |-> write_source(
                                      SetItem(c2.heap, c1.ref, "video", VRef(c2.ref)),
                                      c2.ref, i),
                         options |-> c1.ref, err |-> ""] :
                        c2 \in {dict_copy(c1.heap, c1.heap[c1.ref]["video"].a, "v")}}) :
              c1 \in {dict_copy(h, "request", "options")}})

\* lines 185-207 on the heap, for a request that is a mapping: the error raised, or
\* the mapping that arguments are built from
convert_prepare(h, found, i) ==
    IF ~found
    THEN [heap |-> h, options |-> "request",
          err |-> ConverterError("Source file doesn't exist").err]
    ELSE IF i = VNone
    THEN [heap |-> h, options |-> "request",
          err |-> ConverterError("Can't get information about source file").err]
    ELSE IF ~i.video /\ ~i.audio
    THEN [heap |-> h, options |-> "request",
          err |-> ConverterError("Source file has no audio or video streams").err]
    ELSE The({IF inj.err = "" /\ ZeroLength(i.duration)
              THEN [inj EXCEPT !.err = ConverterError("Zero-length media").err]
              ELSE inj :
              inj \in {inject_source(h, i)}})

\* AudioCodec.parse_options, lines 82-90, with its lists as objects: line 90 extends
\* optlist by the list _codec_specific_produce_ffmpeg_list returns, which for AacCodec
\* is the class attribute itself (line 485)
AudioCodec_extend(h, c, s) ==
    The({Extend(h1, "audio_options",
                IF c = "AacCodec" THEN h1["aac_experimental_enable"]
                ELSE audio_specific_produce_ffmpeg_list(c, s)) :
         h1 \in {Alloc(h, "audio_options", AudioCodec_optlist(c, s))}})

\* The class and the section that lines 71-82 hand to the audio codec
audio_class(o, tp) ==
    ClassOf(audio_codec_list,
            (IF "audio" \in Keys(o) /\ tp # 1 THEN o["audio"].d ELSE NullSection)["codec"])

\* lines 70-84 on the heap
audio_options_heap(h, o, tp) ==
    The({IF r.err # "" THEN [heap |-> h, ret |-> r]
         ELSE IF audio_class(o, tp) \in {"AudioNullCodec", "AudioCopyCodec"}
         THEN [heap |-> Alloc(h, "audio_options", r.val), ret |-> r]
         ELSE The({[heap |-> h2, ret |-> Ok(h2["audio_options"])] :
                   h2 \in {The({AudioCodec_extend(h, audio_class(o, tp), s) :
                                s \in {audio_safe(audio_class(o, tp), o["audio"].d)}})}}) :
         r \in {audio_options(o, tp)}})

\* lines 117-138 on the heap, for a call that raises nothing: format_options is the
\* list the format descriptor returned, optlist the new list of line 133
aggregate_heap(h, tp, audio, video, subtitle, format, map, seek) ==
    The({The({[heap |-> h5, ret |-> Ok(h5["optlist"])] :
              h5 \in {Extend(Alloc(h3, "optlist",
                                   audio \o video \o subtitle \o h3["format_options"]),
                             "optlist", pass_options(tp))}}) :
         h3 \in {Extend(Extend(Alloc(h, "format_options", format), "format_options", map),
                        "format_options", seek)}})

\* lines 70-138 on the heap, for a mapping o whose format was found
sections_heap(h, o, tp, fo) ==
    The({IF a.ret.err # "" THEN a
         ELSE The({IF vo.err # "" THEN [heap |-> a.heap, ret |-> vo]
                   ELSE IF so.err # "" THEN [heap |-> a.heap, ret |-> so]
                   ELSE IF mo.err # "" THEN [heap |-> a.heap, ret |-> mo]
                   ELSE aggregate_heap(a.heap, tp, a.ret.val, vo.val, so.val, fo.val,
                                       mo.val, seek_options(o)) :
                   vo \in {video_options(o)}, so \in {subtitle_options(o)},
                   mo \in {map_options(o)}}) :
         a \in {audio_options_heap(h, o, tp)}})

\* Converter.parse_options on the heap, for the request at optref
parse_options_heap(h, optref, tp) ==
    The({IF o.t # "dict"
         THEN [heap |-> h, ret |-> ConverterError("Invalid output specification")]
         ELSE IF "format" \notin Keys(o.d)
         THEN [heap |-> h, ret |-> ConverterError("Format not specified")]
         ELSE The({IF fo.err # "" THEN [heap |-> h, ret |-> fo]
                   ELSE IF "audio" \notin Keys(o.d) /\ "video" \notin Keys(o.d)
                   THEN [heap |-> h,
                         ret |-> ConverterError("Neither audio nor video streams requested")]
                   ELSE sections_heap(h, o.d, tp, fo) :
                   fo \in {format_options(o.d)}}) :
         o \in {Deref(h, optref)}})

(***************************************************************************)
(* Specification SpecReuse: parse_options and convert called again and     *)
(* again on one Converter with one request object. The source file exists; *)
(* the engine runs between the calls touch none of the objects.            *)
(***************************************************************************)
MaxCalls == 3

ReuseRequests ==
    {VDict([format |-> VStr("mp4"), audio |-> VDict([codec |-> VStr("aac")]),
            video |-> VDict([codec |-> VStr("copy")])]),
     VDict([format |-> VStr("mp4"),
            audio |-> VDict([codec |-> VStr("aac"), bitrate |-> VInt(128)]),
            video |-> VDict([codec |-> VStr("h264"), max_width |-> VInt(16),
                             max_height |-> VInt(16)])]),
     VDict([format |-> VStr("ogg"),
            audio |-> VDict([codec |-> VStr("vorbis"), quality |-> VInt(5)])]),
     VDict([format |-> VStr("mp4"), audio |-> VDict([codec |-> VStr("aac")]),
            video |-> VStr("h264")]),
     VDict([format |-> VStr("mp4"), video |-> VDict([codec |-> VStr("copy")]),
            map |-> VInt(0), start |-> VStr("00:00:05")]),
     VDict([format |-> VStr("bogus"), audio |-> VDict([codec |-> VStr("aac")])])}

ReuseProbes ==
    {VNone,
     [video |-> TRUE, audio |-> TRUE, width |-> 32, height |-> 18, duration |-> 4],
     [video |-> TRUE, audio |-> TRUE, width |-> 32, height |-> 18, duration |-> 4,
      rotate |-> 90],
     [video |-> FALSE, audio |-> TRUE, width |-> 0, height |-> 0, duration |-> 4],
     [video |-> TRUE, audio |-> FALSE, width |-> 32, height |-> 18, duration |-> 0]}

InitReuse ==
    /\ asked \in ReuseRequests
    /\ heap = HeapOf(asked)
    /\ probe \in ReuseProbes
    /\ results = <<>>
    /\ IdleSafe /\ IdleAudio /\ IdleGeom /\ IdleVideo /\ IdleParse /\ IdleConvert

Entry(op, tp, ret) == [op |-> op, twopass |-> tp, ret |-> ret]

reuseFrame == <<asked, probe, safeVars, audioVars, geomVars, videoVars, parseVars,
                convertVars>>

\* converter.parse_options(request, tp)
ReuseParseOptions ==
    /\ Len(results) < MaxCalls
    /\ \E tp \in TwopassValues :
       \E r \in {parse_options_heap(heap, "request", tp)} :
          /\ heap' = Shared(r.heap)
          /\ results' = Append(results, Entry("parse_options", tp, r.ret))
    /\ UNCHANGED reuseFrame

\* converter.convert(infile, outfile, request), iterated to its end
ReuseConvert ==
    /\ Len(results) < MaxCalls
    /\ \E p \in {convert_prepare(heap, TRUE, probe)} :
          IF p.err # ""
          THEN /\ heap' = Shared(p.heap)
               /\ results' = Append(results, Entry("convert", 0, Raise(p.err)))
          ELSE \E r \in {parse_options_heap(p.heap, p.options, 0)} :
                  /\ heap' = Shared(r.heap)
                  /\ results' = Append(results, Entry("convert", 0, r.ret))
    /\ UNCHANGED reuseFrame

\* converter.convert(infile, outfile, request, twopass=True), iterated to its end
ReuseConvertTwopass ==
    /\ Len(results) < MaxCalls
    /\ \E p \in {convert_prepare(heap, TRUE, probe)} :
          IF p.err # ""
          THEN /\ heap' = Shared(p.heap)
               /\ results' = Append(results, Entry("convert", 1, Raise(p.err)))
          ELSE \E r1 \in {parse_options_heap(p.heap, p.options, 1)} :
                  IF r1.ret.err # ""
                  THEN /\ heap' = Shared(r1.heap)
                       /\ results' = Append(results, Entry("convert", 1, r1.ret))
                  ELSE \E r2 \in {parse_options_heap(r1.heap, p.options, 2)} :
                          /\ heap' = Shared(r2.heap)
                          /\ results' = results \o <<Entry("convert", 1, r1.ret),
                                                     Entry("convert", 2, r2.ret)>>
    /\ UNCHANGED reuseFrame

NextReuse == ReuseParseOptions \/ ReuseConvert \/ ReuseConvertTwopass

SpecReuse == InitReuse /\ [][NextReuse]_vars

\* C18: after any sequence of parse_options and convert calls the caller's request,
\* its video section included, is as the caller built it, the class attribute
\* AacCodec.aac_experimental_enable and the four registries are as they were set up,
\* and two calls of the same operation with the same pass number returned the same
\* list or raised the same error.
C18_ArgumentConstructionStateless ==
    /\ Deref(heap, "request") = asked
    /\ heap["aac_experimental_enable"] = <<"-strict", "experimental">>
    /\ heap["audio_codecs"] = registry(audio_codec_list)
    /\ heap["video_codecs"] = registry(video_codec_list)
    /\ heap["subtitle_codecs"] = registry(subtitle_codec_list)
    /\ heap["formats"] = formats_registry
    /\ \A m, n \in 1..Len(results) :
         (results[m].op = results[n].op /\ results[m].twopass = results[n].twopass)
             => results[m].ret = results[n].ret

\* Witness: convert has twice put the probed source size and rotation into its copy of
\* the video section and returned the same list with the AAC tokens, and parse_options
\* was called after it.
C18_Witness ==
    /\ probe # VNone /\ probe.video /\ "rotate" \in DOMAIN probe
    /\ "video" \in Keys(asked.d)
    /\ Len(results) = 3
    /\ results[1].op = "convert" /\ results[2].op = "convert"
    /\ results[1].twopass = results[2].twopass
    /\ results[1].ret.err = "" /\ "-strict" \in Range(results[1].ret.val)
    /\ results[3].op = "parse_options" /\ results[3].ret.err = ""

====
